---- MODULE Spec2Model ----
(***************************************************************************)
(* Model of bloch_improved.py: the ImprovedBlochEquation scene and the      *)
(* relaxation sampler inside show_relaxation_enhanced.                      *)
(*                                                                          *)
(* The program computes with Python floats (IEEE-754 binary64).  A float is *)
(* modelled exactly: a record [s, e, m] standing for (-1)^s * m * 2^e with  *)
(* m = 0 or 2^52 <= m < 2^53, m held as little-endian limbs in base 2^14    *)
(* because TLC's integers are 32 bits wide.  Every operation computes the   *)
(* exact result and rounds it to nearest, ties to even.                     *)
(* Exponents are unbounded (no overflow, underflow or subnormals: all       *)
(* values of the program lie between 2^-60 and 2^6).                        *)
(***************************************************************************)
EXTENDS Integers, Sequences, FiniteSets, TLC

(***************************************************************************)
(* Natural numbers of any size: little-endian limbs, no high zero limb.     *)
(***************************************************************************)
LimbBits == 14
Base == 2 ^ LimbBits

RECURSIVE BNorm(_)
BNorm(x) ==
  IF x = <<>> THEN <<>>
  ELSE IF x[Len(x)] = 0 THEN BNorm(SubSeq(x, 1, Len(x) - 1)) ELSE x

RECURSIVE BFromInt(_)
BFromInt(n) == IF n = 0 THEN <<>> ELSE <<n % Base>> \o BFromInt(n \div Base)

RECURSIVE BToInt(_)
BToInt(x) == IF x = <<>> THEN 0 ELSE x[1] + Base * BToInt(Tail(x))

RECURSIVE BAddC(_, _, _)
BAddC(x, y, c) ==
  IF x = <<>> /\ y = <<>> THEN (IF c = 0 THEN <<>> ELSE <<c>>)
  ELSE LET a == IF x = <<>> THEN 0 ELSE x[1]
           b == IF y = <<>> THEN 0 ELSE y[1]
           s == a + b + c
       IN <<s % Base>> \o BAddC(IF x = <<>> THEN <<>> ELSE Tail(x),
                                IF y = <<>> THEN <<>> ELSE Tail(y),
                                s \div Base)

BAdd(x, y) == BAddC(x, y, 0)

RECURSIVE BSubB(_, _, _)
BSubB(x, y, b) ==
  IF x = <<>> THEN <<>>
  ELSE LET c == IF y = <<>> THEN 0 ELSE y[1]
           d == x[1] - c - b
       IN <<IF d < 0 THEN d + Base ELSE d>>
            \o BSubB(Tail(x), IF y = <<>> THEN <<>> ELSE Tail(y),
                     IF d < 0 THEN 1 ELSE 0)

\* x - y for x >= y
BSub(x, y) == BNorm(BSubB(x, y, 0))

RECURSIVE BCmpFrom(_, _, _)
BCmpFrom(x, y, i) ==
  IF i = 0 THEN 0
  ELSE IF x[i] > y[i] THEN 1
  ELSE IF x[i] < y[i] THEN -1
  ELSE BCmpFrom(x, y, i - 1)

\* -1, 0, 1 as x <, =, > y
BCmp(x, y) ==
  IF Len(x) > Len(y) THEN 1
  ELSE IF Len(x) < Len(y) THEN -1
  ELSE BCmpFrom(x, y, Len(x))

RECURSIVE BMulSmallC(_, _, _)
BMulSmallC(x, k, c) ==
  IF x = <<>> THEN (IF c = 0 THEN <<>> ELSE <<c>>)
  ELSE LET p == x[1] * k + c
       IN <<p % Base>> \o BMulSmallC(Tail(x), k, p \div Base)

\* x * k for 0 <= k < Base
BMulSmall(x, k) == BNorm(BMulSmallC(x, k, 0))

RECURSIVE BMul(_, _)
BMul(x, y) ==
  IF x = <<>> \/ y = <<>> THEN <<>>
  ELSE BAdd(BMulSmall(x, y[1]),
            LET r == BMul(x, Tail(y)) IN IF r = <<>> THEN <<>> ELSE <<0>> \o r)

RECURSIVE BDivSmallFrom(_, _, _, _)
BDivSmallFrom(x, k, i, r) ==
  IF i = 0 THEN <<>>
  ELSE LET n == r * Base + x[i]
       IN BDivSmallFrom(x, k, i - 1, n % k) \o <<n \div k>>

\* floor(x / k) for 0 < k <= Base
BDivSmall(x, k) == BNorm(BDivSmallFrom(x, k, Len(x), 0))

\* x * 2^n
BShl(x, n) ==
  IF x = <<>> THEN <<>>
  ELSE [i \in 1..(n \div LimbBits) |-> 0] \o BMulSmall(x, 2 ^ (n % LimbBits))

\* floor(x / 2^n)
BShr(x, n) ==
  IF n \div LimbBits >= Len(x) THEN <<>>
  ELSE BDivSmall(SubSeq(x, (n \div LimbBits) + 1, Len(x)), 2 ^ (n % LimbBits))

RECURSIVE BitLenSmall(_)
BitLenSmall(n) == IF n = 0 THEN 0 ELSE 1 + BitLenSmall(n \div 2)

BBitLen(x) ==
  IF x = <<>> THEN 0 ELSE LimbBits * (Len(x) - 1) + BitLenSmall(x[Len(x)])

(***************************************************************************)
(* binary64 values and their arithmetic (Python float, numpy.float64).      *)
(***************************************************************************)
Precision == 53

FZero(s) == [s |-> s, e |-> 0, m |-> <<>>]

IsZero(x) == x.m = <<>>

\* M / 2^sh rounded to the nearest integer, ties to even, for sh > 0
RoundShr(M, sh) ==
  LET q    == BShr(M, sh)
      rem  == BSub(M, BShl(q, sh))
      half == BShl(<<1>>, sh - 1)
      c    == BCmp(rem, half)
      odd  == q # <<>> /\ q[1] % 2 = 1
  IN IF c = 1 \/ (c = 0 /\ odd) THEN BAdd(q, <<1>>) ELSE q

\* the float nearest to (-1)^s * M * 2^E, ties to even
FRound(s, M, E) ==
  LET L == BBitLen(M) IN
  IF L = 0 THEN FZero(s)
  ELSE IF L <= Precision
  THEN [s |-> s, e |-> E - (Precision - L), m |-> BShl(M, Precision - L)]
  ELSE LET sh   == L - Precision
           q1   == RoundShr(M, sh)
       IN IF BBitLen(q1) > Precision
          THEN [s |-> s, e |-> E + sh + 1, m |-> BShr(q1, 1)]
          ELSE [s |-> s, e |-> E + sh, m |-> q1]

FromInt(n) == IF n < 0 THEN FRound(1, BFromInt(-n), 0) ELSE FRound(0, BFromInt(n), 0)

FNeg(x) == [x EXCEPT !.s = 1 - x.s]

FMul(x, y) ==
  LET s == (x.s + y.s) % 2 IN
  IF IsZero(x) \/ IsZero(y) THEN FZero(s)
  ELSE FRound(s, BMul(x.m, y.m), x.e + y.e)

FAdd(x, y) ==
  IF IsZero(x) /\ IsZero(y) THEN FZero(IF x.s = 1 /\ y.s = 1 THEN 1 ELSE 0)
  ELSE IF IsZero(x) THEN y
  ELSE IF IsZero(y) THEN x
  ELSE LET e  == IF x.e < y.e THEN x.e ELSE y.e
           mx == BShl(x.m, x.e - e)
           my == BShl(y.m, y.e - e)
           c  == BCmp(mx, my)
       IN IF x.s = y.s THEN FRound(x.s, BAdd(mx, my), e)
          ELSE IF c = 0 THEN FZero(0)
          ELSE IF c = 1 THEN FRound(x.s, BSub(mx, my), e)
          ELSE FRound(y.s, BSub(my, mx), e)

FSub(x, y) == FAdd(x, FNeg(y))

\* LimbBits steps of binary long division of r by d, for r < 2 * d:
\* <<the remainder left, the quotient bits as a number>>
RECURSIVE DivChunk(_, _, _, _)
DivChunk(r, d, q, k) ==
  IF k = 0 THEN <<r, q>>
  ELSE IF BCmp(r, d) >= 0
  THEN DivChunk(BMulSmall(BSub(r, d), 2), d, 2 * q + 1, k - 1)
  ELSE DivChunk(BMulSmall(r, 2), d, 2 * q, k - 1)

\* n limbs of the quotient of r by d above a limb that is 1 iff the
\* division left a remainder
RECURSIVE DivLimbs(_, _, _)
DivLimbs(r, d, n) ==
  IF n = 0 THEN <<IF r = <<>> THEN 0 ELSE 1>>
  ELSE LET c == DivChunk(r, d, 0, LimbBits)
       IN DivLimbs(c[1], d, n - 1) \o <<c[2]>>

QuotLimbs == 4

\* x / y for y # 0
FDiv(x, y) ==
  LET s == (x.s + y.s) % 2 IN
  IF IsZero(x) THEN FZero(s)
  ELSE FRound(s, DivLimbs(x.m, y.m, QuotLimbs),
              x.e - y.e - (QuotLimbs * LimbBits - 1) - LimbBits)

\* -1, 0, 1 as x <, =, > y
FCmp(x, y) ==
  LET d == FSub(x, y) IN
  IF IsZero(d) THEN 0 ELSE IF d.s = 1 THEN -1 ELSE 1

FLt(x, y) == FCmp(x, y) = -1
FLe(x, y) == FCmp(x, y) <= 0

\* int(x): truncation toward zero, for |x| < 2^31
Trunc(x) ==
  IF IsZero(x) THEN 0
  ELSE LET a == IF x.e >= 0 THEN BToInt(BShl(x.m, x.e)) ELSE BToInt(BShr(x.m, -x.e))
       IN IF x.s = 1 THEN -a ELSE a

\* the float a decimal literal n / 10^k denotes (n and 10^k are exact)
Lit(n, tenPow) == FDiv(FromInt(n), FromInt(tenPow))

\* f"{x:.2f}": the sign and the hundredths of x rounded to two decimals
Fmt2(x) ==
  LET X == BMulSmall(x.m, 100)
  IN [neg   |-> x.s = 1,
      cents |-> IF IsZero(x) THEN 0
                ELSE IF x.e >= 0 THEN BToInt(BShl(X, x.e))
                ELSE BToInt(RoundShr(X, -x.e))]

\* numpy.exp is a library routine: its result is kept as the term exp(x)
NpExp(x) == [fn |-> "exp", arg |-> x]

\* arithmetic on such a term is kept as a term
Term(op, l, r) == [op |-> op, l |-> l, r |-> r]

(***************************************************************************)
(* The inputs.  The source fixes them as literals (total_time 0.3 or 1.5,   *)
(* dt 0.05, M0 1.0, T1 1.0, T2 0.1); the sampler is checked for these and   *)
(* for a few more literals of the same form.  Times are literals in         *)
(* hundredths, M0, T1 and T2 literals in tenths.                            *)
(***************************************************************************)
Literals ==
  { [total |-> 30, dt |-> 5], [total |-> 150, dt |-> 5],
    [total |-> 30, dt |-> 7],
    [total |-> 63, dt |-> 7], [total |-> 5, dt |-> 5],
    [total |-> 5, dt |-> 7], [total |-> 0, dt |-> 5],
    [total |-> 30, dt |-> 0] }
M0Tenths   == {10, 20}
T1Tenths   == {10, 20}
T2Tenths   == {1, 2}

\* how many times show_relaxation_enhanced runs
MaxRuns == 2

Zero == FZero(0)
One  == FromInt(1)

\* np.sin(15 * DEGREES) = 0.25881904510252074
SinTilt == [s |-> 0, e |-> -54, m |-> <<1680, 1612, 2012, 1060>>]
\* np.cos(15 * DEGREES) = 0.9659258262890683
CosTilt == [s |-> 0, e |-> -53, m |-> <<16149, 7458, 3540, 1978>>]

\* equilibrium_end = [0.2 * np.sin(initial_tilt), 0, self.M0 * np.cos(initial_tilt)]
EquilibriumEnd(m0) == <<FMul(Lit(2, 10), SinTilt), Zero, FMul(m0, CosTilt)>>

\* target_end = [0, self.M0, 0]
TargetEnd(m0) == <<Zero, m0, Zero>>

\* steps = int(total_time / dt)
StepsOneMore(total, step) == Trunc(FDiv(total, step)) + 1
Steps(total, step) == Trunc(FDiv(total, step))

\* t = (i + 1) * dt
StepTimeNoIndex(i, step) == step
StepTime(i, step) == FMul(FromInt(i + 1), step)

\* current_pos = (1 - alpha) * start_pos + alpha * np.array(final_pos)
CurrentPos(a, start_pos, final_pos) ==
  LET b == FSub(One, a)
  IN [k \in 1..3 |-> FAdd(FMul(b, start_pos[k]), FMul(a, final_pos[k]))]

\* the four Text objects of the parameter display
DisplayOfSwapped(mx, my, mz, time) ==
  [mx |-> Fmt2(mx), my |-> Fmt2(mz), mz |-> Fmt2(my), t |-> Fmt2(time)]
DisplayOf(mx, my, mz, time) ==
  [mx |-> Fmt2(mx), my |-> Fmt2(my), mz |-> Fmt2(mz), t |-> Fmt2(time)]

DisplayNames == {"mx_display", "my_display", "mz_display", "time_display"}

VARIABLES
  pc,               \* where construct() is
  lit,              \* the literals of total_time and dt, in hundredths
  M0, T1, T2,       \* self.M0, self.T1, self.T2
  equilibrium_end,  \* self.equilibrium_end, <<>> before it is set
  magnetization,    \* the end of the arrow self.magnetization, <<>> before
  status_text,      \* the text of self.status_text, "" before it is made
  fixed_in_frame,   \* the mobjects registered as fixed in frame
  display,          \* the parameter display, <<>> before it is created
  total_time, dt, steps, i,        \* locals of show_relaxation_enhanced
  t, alpha, decay_t2, Mz_t,        \* locals of its loop, <<>> while unset
  emitted,          \* the samples shown so far by this run, in order
  prev,             \* the samples and the T1, T2 of the run before, <<>> if none
  runs              \* the runs of show_relaxation_enhanced begun

consts == <<lit, M0>>
scene  == <<equilibrium_end, magnetization, status_text, fixed_in_frame, display>>
locals == <<total_time, dt, steps, i, t, alpha, decay_t2, Mz_t>>
vars   == <<pc, consts, T1, T2, scene, locals, emitted, prev, runs>>

\* construct(), lines 50-67: the constants are set, nothing is on the scene
Init ==
  /\ pc = "setup_scene"
  /\ lit \in Literals
  /\ M0 \in {Lit(n, 10) : n \in M0Tenths}
  /\ T1 \in {Lit(n, 10) : n \in T1Tenths}
  /\ T2 \in {Lit(n, 10) : n \in T2Tenths}
  /\ equilibrium_end = <<>>
  /\ magnetization = <<>>
  /\ status_text = ""
  /\ fixed_in_frame = {}
  /\ display = <<>>
  /\ total_time = <<>> /\ dt = <<>> /\ steps = 0 /\ i = 0
  /\ t = <<>> /\ alpha = <<>> /\ decay_t2 = <<>> /\ Mz_t = <<>>
  /\ emitted = <<>>
  /\ prev = <<>>
  /\ runs = 0

\* alpha = t / total_time
AlphaOverT1(time, total) == FDiv(time, T1)
Alpha(time, total) == FDiv(time, total)

\* start_pos = np.array([0, self.M0, 0])
StartPosFromArrow(m0) == magnetization
StartPos(m0) == <<Zero, m0, Zero>>

\* the sample the code shows after the loop: final_magnetization ends at
\* self.equilibrium_end and the display is given total_time
FinalSampleKeepsLast(eq, total) ==
  [pos |-> magnetization, t |-> IF t = <<>> THEN total ELSE t[1]]
FinalSample(eq, total) == [pos |-> eq, t |-> total]

\* the status text is replaced: the old one leaves the fixed-in-frame set,
\* the new one enters it
SwapStatusKeepsOld(new) ==
  /\ status_text' = new
  /\ fixed_in_frame' = fixed_in_frame \cup {new}
SwapStatus(new) ==
  /\ status_text' = new
  /\ fixed_in_frame' = (fixed_in_frame \ {status_text}) \cup {new}

SetupScene ==
  /\ pc = "setup_scene"
  /\ fixed_in_frame' = fixed_in_frame \cup {"title", "equation"}
  /\ pc' = "equilibrium"
  /\ UNCHANGED <<consts, T1, T2, equilibrium_end, magnetization, status_text,
                 display, locals, emitted, prev, runs>>

\* demonstrate_bloch_physics up to its first play
ShowEquilibrium ==
  /\ pc = "equilibrium"
  /\ equilibrium_end' = EquilibriumEnd(M0)
  /\ magnetization' = equilibrium_end'
  /\ status_text' = "Equilibrium State"
  /\ fixed_in_frame' = fixed_in_frame \cup {"Equilibrium State"}
  /\ pc' = "rf_pulse"
  /\ UNCHANGED <<consts, T1, T2, display, locals, emitted, prev, runs>>

ApplyRfPulse ==
  /\ pc = "rf_pulse"
  /\ status_text' = "90° RF Pulse Applied"
  /\ magnetization' = TargetEnd(M0)
  /\ display' = <<DisplayOf(Zero, M0, Zero, Zero)>>
  /\ fixed_in_frame' =
       ((fixed_in_frame \ {status_text}) \cup {status_text'}) \cup DisplayNames
  /\ pc' = "relaxation"
  /\ UNCHANGED <<consts, T1, T2, equilibrium_end, locals, emitted, prev, runs>>

\* show_relaxation_enhanced up to its loop; dt = 0 raises ZeroDivisionError
EnterRelaxation ==
  /\ SwapStatus("Free Induction Decay")
  /\ total_time' = <<Lit(lit.total, 100)>>
  /\ dt' = <<Lit(lit.dt, 100)>>
  /\ IF lit.dt = 0
     THEN /\ pc' = "error"
          /\ steps' = 0
     ELSE /\ pc' = "loop"
          /\ steps' = Steps(total_time'[1], dt'[1])
  /\ i' = 0
  /\ t' = <<>> /\ alpha' = <<>> /\ decay_t2' = <<>> /\ Mz_t' = <<>>
  /\ emitted' = <<>>
  /\ runs' = runs + 1
  /\ UNCHANGED <<consts, equilibrium_end, magnetization, display>>

BeginRelaxation ==
  /\ pc = "relaxation"
  /\ EnterRelaxation
  /\ UNCHANGED <<T1, T2, prev>>

\* one pass of the loop of show_relaxation_enhanced
RelaxStep ==
  /\ pc = "loop"
  /\ i < steps
  /\ LET time == StepTime(i, dt[1]) IN
     /\ t' = <<time>>
     /\ decay_t2' = <<NpExp(FDiv(FNeg(time), T2))>>
     /\ Mz_t' = <<Term("*", equilibrium_end[3],
                       Term("-", One, NpExp(FDiv(FNeg(time), T1))))>>
     /\ IF IsZero(total_time[1])
        THEN /\ pc' = "error"
             /\ UNCHANGED <<alpha, display, magnetization, emitted, i>>
        ELSE LET a   == Alpha(time, total_time[1])
                 pos == CurrentPos(a, StartPos(M0), equilibrium_end)
             IN /\ alpha' = <<a>>
                /\ display' = <<DisplayOf(pos[1], pos[2], pos[3], time)>>
                /\ magnetization' = pos
                /\ emitted' = Append(emitted, [pos |-> pos, t |-> time])
                /\ i' = i + 1
                /\ pc' = "loop"
  /\ UNCHANGED <<consts, T1, T2, equilibrium_end, status_text, fixed_in_frame,
                 total_time, dt, steps, prev, runs>>

\* after the loop: the arrow and the display are set to the equilibrium
FinalStep ==
  /\ pc = "loop"
  /\ i >= steps
  /\ LET last == FinalSample(equilibrium_end, total_time[1]) IN
     /\ magnetization' = last.pos
     /\ display' = <<DisplayOf(last.pos[1], last.pos[2], last.pos[3], last.t)>>
     /\ emitted' = Append(emitted, last)
  /\ pc' = "relaxed"
  /\ UNCHANGED <<consts, T1, T2, equilibrium_end, status_text, fixed_in_frame,
                 locals, prev, runs>>

\* show_relaxation_enhanced is run again on the scene the last run left,
\* with the same literals and with T1, T2 set anew
Rerun ==
  /\ pc = "relaxed"
  /\ runs < MaxRuns
  /\ prev' = <<[emitted |-> emitted, T1 |-> T1, T2 |-> T2]>>
  /\ T1' \in {Lit(n, 10) : n \in T1Tenths}
  /\ T2' \in {Lit(n, 10) : n \in T2Tenths}
  /\ EnterRelaxation

ShowFinalSummary ==
  /\ pc = "relaxed"
  /\ SwapStatus("Return to Equilibrium")
  /\ pc' = "done"
  /\ UNCHANGED <<consts, T1, T2, equilibrium_end, magnetization, display,
                 locals, emitted, prev, runs>>

Next ==
  \/ SetupScene
  \/ ShowEquilibrium
  \/ ApplyRfPulse
  \/ BeginRelaxation
  \/ RelaxStep
  \/ FinalStep
  \/ Rerun
  \/ ShowFinalSummary

Spec == Init /\ [][Next]_vars

(***************************************************************************)
(* The claims.  The code names the spec's quantities as follows:            *)
(* startVector is [0, M0, 0], endVector is equilibrium_end, totalDuration   *)
(* is total_time, stepSize is dt.  A run of the sampler is finished when    *)
(* pc is "relaxed" or "done"; emitted then holds the i loop samples and     *)
(* after them the corrective sample.                                        *)
(***************************************************************************)
Finished == pc \in {"relaxed", "done"}

Last(q) == q[Len(q)]

\* the literals as exact numbers: floor(totalDuration / stepSize)
ExactStepCount == lit.total \div lit.dt

\* C1: when a run of the sampler is finished, the last sample it emitted has
\* position exactly endVector and time exactly totalDuration, whether or not
\* stepSize divides totalDuration.
C1_LastSamplePinned ==
  Finished =>
    /\ emitted # <<>>
    /\ Last(emitted).pos = equilibrium_end
    /\ Last(emitted).t = total_time[1]

\* a finished run whose last loop sample fell short of totalDuration and of
\* endVector, followed by the corrective sample
C1_Witness ==
  /\ Finished
  /\ lit = [total |-> 30, dt |-> 7]
  /\ Len(emitted) = 5
  /\ emitted[4].pos # equilibrium_end
  /\ FLt(emitted[4].t, total_time[1])
  /\ Last(emitted).pos = equilibrium_end

\* C2 (as claimed): for 0 < stepSize <= totalDuration a finished run has
\* emitted floor(totalDuration / stepSize) + 1 samples.
C2_SampleCount ==
  (Finished /\ 0 < lit.dt /\ lit.dt <= lit.total) =>
    Len(emitted) = ExactStepCount + 1

\* C3 (as claimed): for every i in 1..floor(totalDuration / stepSize) the i-th
\* loop sample exists, has t = i * stepSize and the position
\* (1 - a) * startVector + a * endVector with a = t / totalDuration.
C3_LoopSamples ==
  (Finished /\ 0 < lit.dt) =>
    \A k \in 1..ExactStepCount :
      /\ k <= i
      /\ emitted[k].t = FMul(FromInt(k), dt[1])
      /\ emitted[k].pos =
           CurrentPos(FDiv(emitted[k].t, total_time[1]),
                      <<Zero, M0, Zero>>, equilibrium_end)

C6_SixSamplesNoCorrective ==
  (Finished /\ lit = [total |-> 30, dt |-> 5] /\ M0 = One) =>
    /\ i = 6
    /\ Len(emitted) = 6
    /\ \A k \in 1..6 : emitted[k].t = FMul(FromInt(k), dt[1])
    /\ emitted[6].t = total_time[1]
    /\ emitted[6].pos = equilibrium_end

\* C7: when stepSize > totalDuration (totalDuration = 0 included) the loop
\* emits nothing, a finished run has emitted the corrective sample alone, no
\* error is raised and alpha = t / total_time is never evaluated.
C7_DegenerateStep ==
  (lit.dt > lit.total) =>
    /\ pc # "error"
    /\ alpha = <<>>
    /\ i = 0
    /\ ~Finished => emitted = <<>>
    /\ Finished => emitted = <<[pos |-> equilibrium_end, t |-> total_time[1]]>>

\* a finished run with totalDuration = 0 and stepSize > 0
C7_Witness ==
  /\ Finished
  /\ lit = [total |-> 0, dt |-> 5]
  /\ Len(emitted) = 1
  /\ IsZero(emitted[1].t)

\* C8: a second run with the same inputs, begun on the scene the first run
\* left (arrow and display at their final values), emits the same sequence.
C8_RerunSameSequence ==
  (Finished /\ prev # <<>> /\ prev[1].T1 = T1 /\ prev[1].T2 = T2) =>
    emitted = prev[1].emitted

\* a finished second run of several samples that began with the arrow at the
\* equilibrium, where the first run had left it
C8_Witness ==
  /\ Finished
  /\ runs = 2
  /\ prev # <<>> /\ prev[1].T1 = T1 /\ prev[1].T2 = T2
  /\ Len(emitted) >= 5
  /\ emitted = prev[1].emitted
  /\ emitted[1].pos # equilibrium_end

\* C9 (as claimed): the equilibrium vector is
\* (M0 * sin(tilt), 0, M0 * cos(tilt)).
C9_EquilibriumScaledByM0 ==
  equilibrium_end # <<>> =>
    equilibrium_end = <<FMul(M0, SinTilt), Zero, FMul(M0, CosTilt)>>

\* C10: two runs that differ in T1 or T2 and in nothing else emit the same
\* sequence, although every pass of the loop computes the T2 decay and the T1
\* recovery from them.
C10_IndependentOfT1T2 ==
  /\ (Finished /\ prev # <<>> /\ (prev[1].T1 # T1 \/ prev[1].T2 # T2)) =>
       emitted = prev[1].emitted
  /\ (pc = "loop" /\ i > 0) =>
       /\ decay_t2 = <<NpExp(FDiv(FNeg(t[1]), T2))>>
       /\ Mz_t[1].r.r = NpExp(FDiv(FNeg(t[1]), T1))

\* a finished second run of several samples whose T1 and T2 both differ from
\* the first run's
C10_Witness ==
  /\ Finished
  /\ prev # <<>> /\ prev[1].T1 # T1 /\ prev[1].T2 # T2
  /\ Len(emitted) >= 5
  /\ decay_t2 # <<>>
  /\ emitted = prev[1].emitted

\* a relaxation step of the current run has just completed
StepCompleted == (pc = "loop" /\ i > 0) \/ Finished

\* C11: once the parameter display exists, the Mx, My, Mz it shows are the
\* two-decimal texts of the end of the magnetization arrow; when a relaxation
\* step (a pass of the loop or the corrective step) has completed, the t it
\* shows is the text of that sample's time; it is created showing (0, M0, 0)
\* and t = 0, the end of the arrow after the pulse, and no relaxation step
\* runs before it exists.
C11_DisplayShowsArrow ==
  /\ display # <<>> =>
       /\ display[1].mx = Fmt2(magnetization[1])
       /\ display[1].my = Fmt2(magnetization[2])
       /\ display[1].mz = Fmt2(magnetization[3])
  /\ StepCompleted =>
       /\ display # <<>>
       /\ magnetization = Last(emitted).pos
       /\ display[1].t = Fmt2(Last(emitted).t)
  /\ pc = "relaxation" =>
       /\ display = <<[mx |-> Fmt2(Zero), my |-> Fmt2(M0),
                       mz |-> Fmt2(Zero), t |-> Fmt2(Zero)]>>
       /\ magnetization = <<Zero, M0, Zero>>
  /\ display = <<>> => (emitted = <<>> /\ runs = 0)

\* the third pass of a loop has completed and the display shows a point
\* between the two end points, which is the end of the arrow
C11_Witness ==
  /\ pc = "loop"
  /\ i = 3
  /\ display # <<>>
  /\ display[1].my = Fmt2(magnetization[2])
  /\ display[1].my # Fmt2(M0)
  /\ display[1].my # Fmt2(Zero)
  /\ display[1].mz # Fmt2(Zero)
  /\ display[1].t = Fmt2(t[1])

\* the status texts of the scene, in the order the code makes them
StatusPhases ==
  <<"Equilibrium State", "90° RF Pulse Applied", "Free Induction Decay",
    "Return to Equilibrium">>

StatusTexts == {StatusPhases[k] : k \in 1..Len(StatusPhases)}

\* the place of a status text in that order, 0 while there is none
PhaseOf(text) ==
  IF text = "" THEN 0 ELSE CHOOSE k \in 1..Len(StatusPhases) : StatusPhases[k] = text

\* C12: the status text is always none or one of the four phases, every
\* change of it goes to the next phase (none skipped, none revisited), the
\* fixed-in-frame set never holds more than one status text, namely the
\* current one, and the scene ends on "Return to Equilibrium".
C12_StatusPhases ==
  /\ [](/\ status_text \in StatusTexts \cup {""}
        /\ Cardinality(fixed_in_frame \cap StatusTexts) <= 1
        /\ status_text # "" => fixed_in_frame \cap StatusTexts = {status_text}
        /\ pc = "done" => status_text = "Return to Equilibrium")
  /\ [][status_text' # status_text =>
          PhaseOf(status_text') = PhaseOf(status_text) + 1]_vars

\* the scene has ended after all four phases and only the last status text
\* is fixed in frame
C12_Witness ==
  /\ pc = "done"
  /\ status_text = "Return to Equilibrium"
  /\ fixed_in_frame \cap StatusTexts = {"Return to Equilibrium"}
  /\ "title" \in fixed_in_frame
====
